---- MODULE Spec2Model ----
(***************************************************************************)
(* A model of datascience/util.py: percentile, plot_normal_cdf,           *)
(* table_apply and minimize.                                               *)
(*                                                                         *)
(* Every function of the module is a stateless call.  A behaviour is one   *)
(* call: Init draws the function and its arguments, the function's action  *)
(* runs the whole body and records its outcome in `result`.  The curried   *)
(* use of percentile (f = percentile(75); f([1, 3, 5, 9])) is a three-step *)
(* program: bind f, call f, call f again.                                  *)
(*                                                                         *)
(* Python values are tagged records, so that values of different Python    *)
(* types are distinct TLA+ values:                                         *)
(*   None                  [tag |-> "None"]                                *)
(*   a number n/d          [tag |-> "num", n |-> n, d |-> d]   (d > 0)     *)
(*   a list / array        [tag |-> "list", items |-> <<...>>]             *)
(*   a string              [tag |-> "str", s |-> "..."]                    *)
(*   a returned scalar     [tag |-> "return", value |-> v]                 *)
(*   a returned array      [tag |-> "return_array", items |-> <<...>>]     *)
(*   a returned function   [tag |-> "return_function", p |-> p]            *)
(*   a raised exception    [tag |-> "raise", type |-> t, msg |-> m]        *)
(***************************************************************************)
EXTENDS Integers, Sequences, FiniteSets

VARIABLES
    fn,      \* the function under call
    args,    \* its arguments
    pc,      \* "call" before the body runs, "done" after; "bound", "called",
             \* "recalled" in the curried program
    bound_f, \* the closure bound by f = percentile(p), or None
    result   \* the outcome of the last call, or None

vars == <<fn, args, pc, bound_f, result>>

None == [tag |-> "None"]

Num(n, d) == [tag |-> "num", n |-> n, d |-> d]

List(s) == [tag |-> "list", items |-> s]

Return(v) == [tag |-> "return", value |-> v]

ReturnArray(s) == [tag |-> "return_array", items |-> s]

Raise(t, m) == [tag |-> "raise", type |-> t, msg |-> m]

SeqsUpTo(S, n) == UNION {[1..k -> S] : k \in 0..n}

(***************************************************************************)
(* Builtins used by percentile: min, sorted, math.ceil, list indexing.     *)
(***************************************************************************)
RECURSIVE min(_)
min(s) ==
    IF Len(s) = 1 THEN s[1]
    ELSE LET m == min(Tail(s)) IN IF Head(s) <= m THEN Head(s) ELSE m

\* s is ascending; x goes after the elements that are <= x
Insert(x, s) ==
    LET k == Cardinality({j \in 1..Len(s) : s[j] <= x})
    IN  SubSeq(s, 1, k) \o <<x>> \o SubSeq(s, k + 1, Len(s))

RECURSIVE sorted(_)
sorted(s) == IF s = <<>> THEN <<>> ELSE Insert(Head(s), sorted(Tail(s)))

\* math.ceil(a / b) for b > 0
ceil(a, b) == -((-a) \div b)

\* s[k] of a Python list: k counts from 0, a negative k counts from the end
Index(s, k) ==
    IF 0 <= k /\ k < Len(s) THEN Return(s[k + 1])
    ELSE IF k < 0 /\ -Len(s) <= k THEN Return(s[Len(s) + k + 1])
    ELSE Raise("IndexError", "list index out of range")

(***************************************************************************)
(* percentile(p, arr), p a number: lines 37-41.                            *)
(***************************************************************************)
\* a rank rounded down instead of up
percentile_rank_floor(p, len) == (p.n * len) \div (100 * p.d)

\* math.ceil((p/100) * len(arr))
percentile_rank(p, len) == ceil(p.n * len, 100 * p.d)

\* an assertion that forgets the upper end
percentile_assert_no_upper(p) == 0 < p.n

\* the assertion 0 < p <= 100
percentile_assert(p) == 0 < p.n /\ p.n <= 100 * p.d

\* a rank used as an index, without the - 1
percentile_scalar_no_offset(p, arr) ==
    IF p.n = 0 THEN
        IF arr.items = <<>>
        THEN Raise("ValueError", "min() arg is an empty sequence")
        ELSE Return(min(arr.items))
    ELSE IF ~percentile_assert(p) THEN
        Raise("AssertionError", "Percentile requires a percent")
    ELSE Index(sorted(arr.items), percentile_rank(p, Len(arr.items)))

percentile_scalar(p, arr) ==
    IF p.n = 0 THEN
        IF arr.items = <<>>
        THEN Raise("ValueError", "min() arg is an empty sequence")
        ELSE Return(min(arr.items))
    ELSE IF ~percentile_assert(p) THEN
        Raise("AssertionError", "Percentile requires a percent")
    ELSE Index(sorted(arr.items), percentile_rank(p, Len(arr.items)) - 1)

(***************************************************************************)
(* percentile(p, arr): lines 33-41.  Without arr the call returns the      *)
(* lambda of line 34, which captures p.  With an iterable p the list       *)
(* comprehension of line 36 evaluates percentile(x, arr) for each x in     *)
(* order; the first exception ends it.                                     *)
(***************************************************************************)
\* a lambda that does not capture the caller's p
percentile_lambda_unbound(p) == [tag |-> "return_function", p |-> Num(0, 1)]

percentile_lambda(p) == [tag |-> "return_function", p |-> p]

percentile_each(p, arr) ==
    LET each == [k \in 1..Len(p.items) |-> percentile_scalar(p.items[k], arr)]
        bad  == {k \in 1..Len(p.items) : each[k].tag = "raise"}
    IN  IF bad = {}
        THEN ReturnArray([k \in 1..Len(p.items) |-> each[k].value])
        ELSE each[CHOOSE k \in bad : \A j \in bad : k <= j]

percentile(p, arr) ==
    IF arr.tag = "None" THEN percentile_lambda(p)
    ELSE IF p.tag = "list" THEN percentile_each(p, arr)
    ELSE percentile_scalar(p, arr)

\* f(arr), f the lambda of line 34
call_lambda(g, arr) == percentile(g.p, arr)

(***************************************************************************)
(* The calls of percentile that are explored.                              *)
(***************************************************************************)
MaxLen == 4

Elems == {1, 3, 5, 9}

Arrays == {List(s) : s \in SeqsUpTo(Elems, MaxLen)}

Percents ==
    {Num(-1, 1), Num(0, 1), Num(1, 10), Num(25, 1), Num(50, 1), Num(749, 10),
     Num(75, 1), Num(751, 10), Num(100, 1), Num(1001, 10), Num(150, 1)}

PercentLists == {List(s) : s \in SeqsUpTo({Num(0, 1), Num(75, 1), Num(150, 1)}, 2)}

PercentileArgs == [p : Percents \cup PercentLists, arr : Arrays]

InitPercentile ==
    /\ fn \in {"percentile", "percentile_curried"}
    /\ args \in PercentileArgs
    /\ pc = "call"
    /\ bound_f = None
    /\ result = None

\* percentile(p, arr)
Percentile ==
    /\ fn = "percentile" /\ pc = "call"
    /\ result' = percentile(args.p, args.arr)
    /\ pc' = "done"
    /\ UNCHANGED <<fn, args, bound_f>>

\* f = percentile(p)
PercentileBind ==
    /\ fn = "percentile_curried" /\ pc = "call"
    /\ bound_f' = percentile(args.p, None)
    /\ pc' = "bound"
    /\ UNCHANGED <<fn, args, result>>

\* f(arr)
PercentileCall ==
    /\ fn = "percentile_curried" /\ pc = "bound"
    /\ result' = call_lambda(bound_f, args.arr)
    /\ pc' = "called"
    /\ UNCHANGED <<fn, args, bound_f>>

\* f(arr) once more
PercentileRecall ==
    /\ fn = "percentile_curried" /\ pc = "called"
    /\ result' = call_lambda(bound_f, args.arr)
    /\ pc' = "recalled"
    /\ UNCHANGED <<fn, args, bound_f>>

(***************************************************************************)
(* table_apply(table, func, subset): lines 109-128.                        *)
(*                                                                         *)
(* A Table is a sequence of <<label, values>> pairs with distinct labels.  *)
(* A DataFrame is [columns |-> the labels in order, data |-> label ->      *)
(* values].  A Series indexed by the labels (the outcome of a reducing     *)
(* df.apply) is [index |-> the labels in order, at |-> label -> value].    *)
(* func is one of the Python callables                                     *)
(*   inc     lambda x: x + 1     on a number and on a Series               *)
(*   double  lambda x: 2 * x     on a number and on a Series               *)
(*   sum     the builtin: a Series to its total; a number is not iterable  *)
(***************************************************************************)
\* Table.to_df
to_df(table) ==
    [columns |-> [k \in 1..Len(table) |-> table[k][1]],
     data    |-> [c \in {table[k][1] : k \in 1..Len(table)} |->
                    (table[CHOOSE k \in 1..Len(table) : table[k][1] = c])[2]]]

\* Table.from_df
from_df(df) == [k \in 1..Len(df.columns) |-> <<df.columns[k], df.data[df.columns[k]]>>]

\* func(v), v a number
func_scalar(func, v) ==
    CASE func = "inc"    -> Return(v + 1)
      [] func = "double" -> Return(2 * v)
      [] func = "sum"    -> Raise("TypeError", "'int' object is not iterable")

RECURSIVE total(_)
total(s) == IF s = <<>> THEN 0 ELSE Head(s) + total(Tail(s))

\* func(s), s a Series
func_series(func, s) ==
    CASE func = "inc"    -> ReturnArray([k \in 1..Len(s) |-> s[k] + 1])
      [] func = "double" -> ReturnArray([k \in 1..Len(s) |-> 2 * s[k]])
      [] func = "sum"    -> Return(total(s))

\* np.atleast_1d(subset)
atleast_1d(subset) == IF subset.tag = "list" THEN subset.items ELSE <<subset.s>>

\* i not in df.columns
not_in_columns(df, i) == \A k \in 1..Len(df.columns) : df.columns[k] # i

\* a message that lists the whole subset
column_mismatch_all(df, subset) == subset

\* np.where([i not in df.columns for i in subset])[0], then
\* [subset[i] for i in err]
column_mismatch(df, subset) ==
    LET Missing(i) == not_in_columns(df, subset[i])
        err == SelectSeq([i \in 1..Len(subset) |-> i], Missing)
    IN  [j \in 1..Len(err) |-> subset[err[j]]]

\* df[col].apply(func): func on each value, in order
Series_apply(func, s) ==
    LET each == [k \in 1..Len(s) |-> func_scalar(func, s[k])]
        bad  == {k \in 1..Len(s) : each[k].tag = "raise"}
    IN  IF bad = {}
        THEN ReturnArray([k \in 1..Len(s) |-> each[k].value])
        ELSE each[CHOOSE k \in bad : \A j \in bad : k <= j]

\* for col in subset: df[col] = df[col].apply(func)
\* st is [df, applied, raised]: the frame so far, the columns func was
\* applied to so far, and the exception that ended the loop (or None)
RECURSIVE apply_subset(_, _, _)
apply_subset(st, subset, func) ==
    IF subset = <<>> THEN st
    ELSE LET col == Head(subset)
             r   == Series_apply(func, st.df.data[col])
             applied == Append(st.applied, col)
         IN  IF r.tag = "raise"
             THEN [st EXCEPT !.applied = applied, !.raised = r]
             ELSE apply_subset(
                      [st EXCEPT !.df.data[col] = r.items, !.applied = applied],
                      Tail(subset), func)

\* df = df.apply(func), and lines 124-126: a Series becomes a one-row frame
apply_all(df, func) ==
    LET each == [c \in DOMAIN df.data |-> func_series(func, df.data[c])]
    IN  IF \A c \in DOMAIN df.data : each[c].tag = "return_array"
        THEN [df EXCEPT !.data = [c \in DOMAIN df.data |-> each[c].items]]
        ELSE [df EXCEPT !.data = [c \in DOMAIN df.data |-> <<each[c].value>>]]

ReturnTable(tab, applied) == [tag |-> "return_table", table |-> tab, applied |-> applied]

RaiseIn(exc, applied) ==
    [tag |-> "raise", type |-> exc.type, msg |-> exc.msg, applied |-> applied]

ColumnMismatch(names) == [text |-> "Column mismatch: ", names |-> names]

table_apply(table, func, subset) ==
    LET df == to_df(table)
    IN  IF subset.tag # "None" THEN
            LET sub == atleast_1d(subset)
            IN  IF \E i \in 1..Len(sub) : not_in_columns(df, sub[i])
                THEN RaiseIn(Raise("ValueError", ColumnMismatch(column_mismatch(df, sub))),
                             <<>>)
                ELSE LET st == apply_subset([df |-> df, applied |-> <<>>, raised |-> None],
                                            sub, func)
                     IN  IF st.raised.tag = "raise"
                         THEN RaiseIn(st.raised, st.applied)
                         ELSE ReturnTable(from_df(st.df), st.applied)
        ELSE ReturnTable(from_df(apply_all(df, func)), df.columns)

(***************************************************************************)
(* The calls of table_apply that are explored: tables with the columns     *)
(* "a" and "b" and one to MaxRows rows.                                    *)
(***************************************************************************)
MaxRows == 2

MaxSubset == 2

Cells == {1, 2}

Labels == {"a", "b", "z"}

Str(s) == [tag |-> "str", s |-> s]

ColumnValues == SeqsUpTo(Cells, MaxRows) \ {<<>>}

Tables ==
    {<<<<"a", x>>, <<"b", y>>>> : <<x, y>> \in
        {c \in ColumnValues \X ColumnValues : Len(c[1]) = Len(c[2])}}

Subsets ==
    {None} \cup {Str(l) : l \in Labels}
           \cup {List(s) : s \in SeqsUpTo(Labels, MaxSubset)}

TableApplyArgs == [table : Tables, func : {"inc", "double", "sum"}, subset : Subsets]

InitTableApply ==
    /\ fn = "table_apply"
    /\ args \in TableApplyArgs
    /\ pc = "call"
    /\ bound_f = None
    /\ result = None

TableApply ==
    /\ fn = "table_apply" /\ pc = "call"
    /\ result' = table_apply(args.table, args.func, args.subset)
    /\ pc' = "done"
    /\ UNCHANGED <<fn, args, bound_f>>

(***************************************************************************)
(* minimize(f, start, smooth, log, array, **vargs): lines 149-172.         *)
(*                                                                         *)
(* f is known by its signature: [argcount |-> f.__code__.co_argcount,      *)
(* varargs |-> whether the signature has *args].  start is None, a number  *)
(* or a list of integers.  vargs is a function from option names to        *)
(* values.  scipy's optimize.minimize is outside the module: it calls the  *)
(* objective with a vector as long as x0, so a call the signature of f     *)
(* does not accept raises TypeError; otherwise it returns a result whose x *)
(* is some vector as long as x0 (the first len(x0) entries of `opt`).      *)
(***************************************************************************)
OptimizeResult(x) == [tag |-> "OptimizeResult", x |-> x]

\* f(*args) with n arguments, or f(args) with one
accepts(sig, n) == n = sig.argcount \/ (n > sig.argcount /\ sig.varargs)

optimize_minimize(objective, x0, opt) ==
    IF accepts(objective.f, IF objective.unpack THEN Len(x0) ELSE 1)
    THEN OptimizeResult(SubSeq(opt, 1, Len(x0)))
    ELSE Raise("TypeError", "objective called with the wrong number of arguments")

\* start = [0] * arg_count
minimize_infer(sig) == [k \in 1..sig.argcount |-> 0]

\* lines 154-155, start not None
minimize_wrap(start) == IF start.tag = "list" THEN start.items ELSE <<start.n>>

\* a method default that ignores smooth
minimize_method_always(smooth, vargs) ==
    IF "method" \notin DOMAIN vargs
    THEN [k \in DOMAIN vargs \cup {"method"} |-> IF k = "method" THEN "Powell" ELSE vargs[k]]
    ELSE vargs

\* lines 164-165
minimize_method(smooth, vargs) ==
    IF ~smooth /\ "method" \notin DOMAIN vargs
    THEN [k \in DOMAIN vargs \cup {"method"} |-> IF k = "method" THEN "Powell" ELSE vargs[k]]
    ELSE vargs

\* a result that is unwrapped whatever its length
minimize_result_item(x0, x) == Return(x[1])

\* lines 169-172
minimize_result(x0, x) == IF Len(x0) = 1 THEN Return(x[1]) ELSE ReturnArray(x)

\* what a call of minimize did: its outcome, the one call of
\* optimize.minimize (or None), what that call answered (or None) and the
\* one call of log (or None)
Minimized(outcome, optimizer, answer, logged) ==
    [outcome |-> outcome, optimizer |-> optimizer, answer |-> answer,
     logged |-> logged]

minimize_from(f, x0, smooth, log, array, vargs, opt) ==
    LET objective == [f |-> f, unpack |-> ~array]
        kwargs    == minimize_method(smooth, vargs)
        called    == [tag |-> "call", fun |-> objective, x0 |-> x0, kwargs |-> kwargs]
        res       == optimize_minimize(objective, x0, opt)
    IN  IF res.tag = "raise" THEN Minimized(res, called, res, None)
        ELSE Minimized(minimize_result(x0, res.x), called, res,
                       IF log.tag = "None" THEN None
                       ELSE [tag |-> "call", fun |-> log, arg |-> res])

minimize(f, start, smooth, log, array, vargs, opt) ==
    IF start.tag = "None" THEN
        IF array THEN
            Minimized(Raise("AssertionError",
                            "Please pass starting values explicitly when array=True"),
                      None, None, None)
        ELSE IF ~(f.argcount > 0) THEN
            Minimized(Raise("AssertionError",
                            "Please pass starting values explicitly for variadic functions"),
                      None, None, None)
        ELSE minimize_from(f, minimize_infer(f), smooth, log, array, vargs, opt)
    ELSE minimize_from(f, minimize_wrap(start), smooth, log, array, vargs, opt)

(***************************************************************************)
(* The calls of minimize that are explored.                                *)
(***************************************************************************)
MaxDim == 2

Signatures == [argcount : 0..MaxDim, varargs : BOOLEAN]

StartValues == {0, 3}

Starts ==
    {None, Num(3, 1)} \cup {List(s) : s \in SeqsUpTo(StartValues, MaxDim) \ {<<>>}}

OptionNames == {"method", "tol"}

OptionValues == {"BFGS", "1e-6"}

Options == UNION {[D -> OptionValues] : D \in SUBSET OptionNames}

Logs == {None, [tag |-> "function", name |-> "print"]}

MinimizeArgs ==
    [f : Signatures, start : Starts, smooth : BOOLEAN, log : Logs,
     array : BOOLEAN, vargs : Options]

\* what optimize.minimize may answer
Minima == [1..MaxDim -> {1, 2}]

InitMinimize ==
    /\ fn = "minimize"
    /\ args \in MinimizeArgs
    /\ pc = "call"
    /\ bound_f = None
    /\ result = None

Minimize ==
    /\ fn = "minimize" /\ pc = "call"
    /\ \E opt \in Minima :
         result' = minimize(args.f, args.start, args.smooth, args.log,
                            args.array, args.vargs, opt)
    /\ pc' = "done"
    /\ UNCHANGED <<fn, args, bound_f>>

(***************************************************************************)
(* plot_normal_cdf(rbound, lbound, mean, sd): lines 57-82.                 *)
(*                                                                         *)
(* Numbers are n/d with the one denominator 100, so that step = 0.1 and    *)
(* inf = 3.5 * sd are exact.  The density values are the distribution      *)
(* collaborator's; the figure records the sampled domain of the curve and  *)
(* of every filled region, in the order of the fill_between calls.         *)
(***************************************************************************)
step == Num(10, 100)

\* inf = 3.5 * sd
plot_inf(sd) == Num((35 * sd.n) \div 10, sd.d)

Plus(a, b) == Num(a.n + b.n, a.d)

Neg(a) == Num(-a.n, a.d)

\* np.arange(start, stop, by): ceil((stop - start) / by) values from start
arange(start, stop, by) ==
    LET len == ceil(stop.n - start.n, by.n)
    IN  [k \in 1..(IF len > 0 THEN len ELSE 0) |-> start.n + (k - 1) * by.n]

Fill(x, color) == [x |-> x, color |-> color]

\* shade_left as soon as one bound is given
plot_shade_left_either(rbound, lbound) == rbound.tag # "None" \/ lbound.tag # "None"

\* line 58
plot_shade_left(rbound, lbound) == rbound.tag # "None" /\ lbound.tag # "None"

\* line 57
plot_shade(rbound, lbound) == rbound.tag # "None" \/ lbound.tag # "None"

Infinity == [tag |-> "str", s |-> "$\\infty$"]

MinusInfinity == [tag |-> "str", s |-> "-$\\infty$"]

plot_normal_cdf(rbound, lbound, mean, sd) ==
    LET shade      == plot_shade(rbound, lbound)
        shade_left == plot_shade_left(rbound, lbound)
        inf    == plot_inf(sd)
        rlabel == IF rbound.tag = "None" THEN Infinity ELSE rbound
        llabel == IF lbound.tag = "None" THEN MinusInfinity ELSE lbound
        rb     == IF rbound.tag = "None" THEN Plus(inf, mean) ELSE rbound
        lb     == IF lbound.tag = "None" THEN Plus(Neg(inf), mean) ELSE lbound
        pdf_range == arange(Plus(Neg(inf), mean), Plus(inf, mean), step)
        gold   == Fill(arange(lb, Plus(rb, step), step), "gold")
        blue   == Fill(arange(Plus(Neg(inf), mean), Plus(lb, step), step), "darkblue")
    IN  [tag    |-> "figure",
         curve  |-> pdf_range,
         fills  |-> (IF shade THEN <<gold>> ELSE <<>>)
                    \o (IF shade_left THEN <<blue>> ELSE <<>>),
         xlabel |-> "z",
         title  |-> [mean |-> mean, sd |-> sd, llabel |-> llabel, rlabel |-> rlabel]]

(***************************************************************************)
(* The calls of plot_normal_cdf that are explored.                         *)
(***************************************************************************)
PlotBounds ==
    {None} \cup {Num(n, 100) : n \in {-500, -200, -105, -100, 0, 100, 105, 200}}

PlotArgs ==
    [rbound : PlotBounds, lbound : PlotBounds,
     mean : {Num(0, 100), Num(50, 100)}, sd : {Num(100, 100), Num(200, 100)}]

InitPlot ==
    /\ fn = "plot_normal_cdf"
    /\ args \in PlotArgs
    /\ pc = "call"
    /\ bound_f = None
    /\ result = None

PlotNormalCdf ==
    /\ fn = "plot_normal_cdf" /\ pc = "call"
    /\ result' = plot_normal_cdf(args.rbound, args.lbound, args.mean, args.sd)
    /\ pc' = "done"
    /\ UNCHANGED <<fn, args, bound_f>>

Init == InitPercentile \/ InitTableApply \/ InitMinimize \/ InitPlot

Next ==
    \/ Percentile
    \/ PercentileBind
    \/ PercentileCall
    \/ PercentileRecall
    \/ TableApply
    \/ Minimize
    \/ PlotNormalCdf

Spec == Init /\ [][Next]_vars

(***************************************************************************)
(* Properties.                                                             *)
(***************************************************************************)
PercentileDone == fn = "percentile" /\ pc = "done"

CountOf(s, Test(_)) == Cardinality({j \in 1..Len(s) : Test(s[j])})

\* v is the r-th smallest value of s, counting from 1
IsRanked(v, r, s) ==
    LET Below(x) == x < v
        UpTo(x)  == x <= v
    IN  /\ \E j \in 1..Len(s) : s[j] = v
        /\ CountOf(s, Below) < r
        /\ r <= CountOf(s, UpTo)

\* C1: for a non-empty arr and a number p with 0 < p <= 100, percentile(p, arr)
\* returns the r-th smallest value of arr, r the least integer with
\* r >= (p/100) * len(arr); for [1, 3, 5, 9] it returns 5 for 74.9 and for 75
\* and 9 for 75.1.
C1_NearestRank ==
    (/\ PercentileDone
     /\ args.p.tag = "num"
     /\ 0 < args.p.n /\ args.p.n <= 100 * args.p.d
     /\ args.arr.items # <<>>)
    => /\ result.tag = "return"
       /\ \E r \in 1..Len(args.arr.items) :
            /\ r * 100 * args.p.d >= args.p.n * Len(args.arr.items)
            /\ (r - 1) * 100 * args.p.d < args.p.n * Len(args.arr.items)
            /\ IsRanked(result.value, r, args.arr.items)
       /\ args.arr.items = <<1, 3, 5, 9>> =>
            /\ args.p = Num(749, 10) => result.value = 5
            /\ args.p = Num(75, 1) => result.value = 5
            /\ args.p = Num(751, 10) => result.value = 9

C1_Witness ==
    /\ PercentileDone
    /\ args.p = Num(749, 10)
    /\ args.arr = List(<<9, 1, 5, 3>>)
    /\ result = Return(5)

\* C2: for a number p that is neither 0 nor in (0, 100], and every arr,
\* percentile(p, arr) raises AssertionError('Percentile requires a percent').
C2_RequiresPercent ==
    (/\ PercentileDone
     /\ args.p.tag = "num"
     /\ args.p.n < 0 \/ args.p.n > 100 * args.p.d)
    => result = Raise("AssertionError", "Percentile requires a percent")

C2_Witness ==
    /\ PercentileDone
    /\ args.p = Num(150, 1)
    /\ args.arr = List(<<3, 1>>)
    /\ result.tag = "raise"

\* C3: for a non-empty arr, percentile(0, arr) is the least value of arr and
\* percentile(100, arr) the greatest.
C3_MinAndMax ==
    (PercentileDone /\ args.p.tag = "num" /\ args.arr.items # <<>>)
    => LET s == args.arr.items
       IN  /\ args.p.n = 0 =>
                /\ result.tag = "return"
                /\ \E j \in 1..Len(s) : s[j] = result.value
                /\ \A j \in 1..Len(s) : result.value <= s[j]
           /\ args.p.n = 100 * args.p.d =>
                /\ result.tag = "return"
                /\ \E j \in 1..Len(s) : s[j] = result.value
                /\ \A j \in 1..Len(s) : s[j] <= result.value

C3_Witness ==
    /\ PercentileDone
    /\ args.p = Num(100, 1)
    /\ args.arr = List(<<5, 9, 1>>)
    /\ result = Return(9)

\* C4: percentile(p) returns a function; calling it with arr has the outcome
\* of percentile(p, arr), the call leaves the function as it was, and a
\* second call with the same arr has the outcome of the first.
C4_CurriedAgrees ==
    [][fn = "percentile_curried" =>
        /\ pc' = "bound" => bound_f'.tag = "return_function"
        /\ (pc' \in {"called", "recalled"} /\ pc' # pc) =>
              /\ result' = percentile(args.p, args.arr)
              /\ bound_f' = bound_f
        /\ (pc = "called" /\ pc' = "recalled") => result' = result]_vars

C4_Witness ==
    /\ fn = "percentile_curried" /\ pc = "recalled"
    /\ args.p = Num(75, 1)
    /\ args.arr = List(<<1, 3, 5, 9>>)
    /\ result = Return(5)

MinimizeDone == fn = "minimize" /\ pc = "done"

\* C5: with start omitted, minimize raises AssertionError before the optimizer
\* is called when array=True, when f takes no argument, and when f has *args;
\* in every other case the optimizer starts from one zero per positional
\* argument of f.
C5_StartOmitted ==
    (MinimizeDone /\ args.start.tag = "None")
    => IF args.array \/ args.f.argcount = 0 \/ args.f.varargs
       THEN /\ result.outcome.tag = "raise"
            /\ result.outcome.type = "AssertionError"
            /\ result.optimizer.tag = "None"
       ELSE /\ result.optimizer.tag = "call"
            /\ result.optimizer.x0 = [k \in 1..args.f.argcount |-> 0]

\* the length of the starting point: a number counts one, an omitted start
\* one per positional argument of f
StartLen ==
    CASE args.start.tag = "None" -> args.f.argcount
      [] args.start.tag = "num"  -> 1
      [] args.start.tag = "list" -> Len(args.start.items)

\* C6: when minimize returns, it returns the one entry of the optimizer's x
\* exactly when the starting point has one entry, and otherwise the whole x,
\* as long as start; with array=False and with array=True.
C6_ResultShape ==
    (MinimizeDone /\ result.outcome.tag # "raise")
    => /\ result.answer.tag = "OptimizeResult"
       /\ result.outcome.tag = "return" <=> StartLen = 1
       /\ StartLen = 1 => result.outcome.value = result.answer.x[1]
       /\ StartLen # 1 =>
            /\ result.outcome.tag = "return_array"
            /\ result.outcome.items = result.answer.x
            /\ Len(result.outcome.items) = StartLen

C6_Witness ==
    /\ MinimizeDone
    /\ args.array
    /\ args.start = List(<<0, 3>>)
    /\ result.outcome = ReturnArray(<<2, 1>>)

\* C7: the optimizer gets the option method='Powell' from minimize exactly
\* when smooth is False and the caller gave no method; every option of the
\* caller, method included, reaches the optimizer unchanged.
C7_MethodDefault ==
    (MinimizeDone /\ result.optimizer.tag = "call")
    => LET kw     == result.optimizer.kwargs
           inject == ~args.smooth /\ "method" \notin DOMAIN args.vargs
       IN  /\ DOMAIN kw = DOMAIN args.vargs \cup (IF inject THEN {"method"} ELSE {})
           /\ \A k \in DOMAIN args.vargs : kw[k] = args.vargs[k]
           /\ inject => kw["method"] = "Powell"

C7_Witness ==
    /\ MinimizeDone
    /\ ~args.smooth
    /\ DOMAIN args.vargs = {"tol"}
    /\ result.optimizer.tag = "call"
    /\ result.optimizer.kwargs["method"] = "Powell"
    /\ result.optimizer.kwargs["tol"] = args.vargs["tol"]

TableApplyDone == fn = "table_apply" /\ pc = "done"

IsLabel(l) == \E k \in 1..Len(args.table) : args.table[k][1] = l

NotLabel(l) == ~IsLabel(l)

SubsetIds == IF args.subset.tag = "list" THEN args.subset.items ELSE <<args.subset.s>>

Once(v) == IF args.func = "inc" THEN v + 1 ELSE 2 * v

\* C9: with a subset of columns of the table, the returned table has the
\* labels and the row count of the input, a column not in subset holds its
\* values and a column in subset holds func of each of its values, also when
\* subset names a column twice.
C9_SubsetApplied ==
    (/\ TableApplyDone
     /\ args.subset.tag # "None"
     /\ \A i \in 1..Len(SubsetIds) : IsLabel(SubsetIds[i])
     /\ result.tag = "return_table")
    => /\ Len(result.table) = Len(args.table)
       /\ \A k \in 1..Len(args.table) :
            LET label == args.table[k][1]
                old   == args.table[k][2]
                new   == result.table[k][2]
            IN  /\ result.table[k][1] = label
                /\ Len(new) = Len(old)
                /\ \A j \in 1..Len(old) :
                     new[j] = IF \E i \in 1..Len(SubsetIds) : SubsetIds[i] = label
                              THEN Once(old[j]) ELSE old[j]

PlotDone == fn = "plot_normal_cdf" /\ pc = "done"

\* the window's left edge, mean - 3.5 * sd, in hundredths
LeftEdge == args.mean.n - (7 * args.sd.n) \div 2

Range(s) == {s[k] : k \in 1..Len(s)}

Ascending(s) == \A k \in 1..(Len(s) - 1) : s[k] < s[k + 1]

\* from, from + 0.1, ... below to, in hundredths
Grid(from, to) == {from + 10 * k : k \in 0..200} \cap {v \in -2000..2000 : v < to}

\* the sequence x samples from `from` in steps of 0.1 up to, and not
\* including, `to`
Samples(x, from, to) == Ascending(x) /\ Range(x) = Grid(from, to)

\* C10 as stated: no filled region without bounds; one, from the window's
\* left edge up to rbound, with rbound alone; two distinct ones with both
\* bounds, whose sampled domains are disjoint and adjacent.
C10_DisjointRegions ==
    PlotDone =>
      LET fills == result.fills
      IN  /\ (args.rbound.tag = "None" /\ args.lbound.tag = "None") => Len(fills) = 0
          /\ (args.rbound.tag # "None" /\ args.lbound.tag = "None") =>
                /\ Len(fills) = 1
                /\ Samples(fills[1].x, LeftEdge, args.rbound.n + 10)
          /\ (args.rbound.tag # "None" /\ args.lbound.tag # "None") =>
                /\ Len(fills) = 2
                /\ fills[1].color # fills[2].color
                /\ Range(fills[1].x) \cap Range(fills[2].x) = {}
                /\ \A u \in Range(fills[2].x) : \A v \in Range(fills[1].x) : u < v

\* C10, amended: no filled region without bounds; one, sampled from the
\* window's left edge up to and not including rbound + 0.1, with rbound
\* alone; two distinct ones with both bounds, the primary one sampled from
\* lbound up to and not including rbound + 0.1 and the left one from the
\* window's left edge up to and not including lbound + 0.1, so that the
\* left one ends at or past lbound when lbound is inside the window.
C10_MeetingRegions ==
    PlotDone =>
      LET fills == result.fills
      IN  /\ (args.rbound.tag = "None" /\ args.lbound.tag = "None") => Len(fills) = 0
          /\ (args.rbound.tag # "None" /\ args.lbound.tag = "None") =>
                /\ Len(fills) = 1
                /\ Samples(fills[1].x, LeftEdge, args.rbound.n + 10)
          /\ (args.rbound.tag # "None" /\ args.lbound.tag # "None") =>
                /\ Len(fills) = 2
                /\ fills[1].color # fills[2].color
                /\ Samples(fills[1].x, args.lbound.n, args.rbound.n + 10)
                /\ Samples(fills[2].x, LeftEdge, args.lbound.n + 10)
                /\ args.lbound.n >= LeftEdge =>
                     /\ fills[2].x # <<>>
                     /\ fills[2].x[Len(fills[2].x)] >= args.lbound.n
                     /\ fills[2].x[Len(fills[2].x)] < args.lbound.n + 10

C10_Witness ==
    /\ PlotDone
    /\ args.lbound = Num(-105, 100) /\ args.rbound = Num(100, 100)
    /\ args.mean = Num(0, 100) /\ args.sd = Num(100, 100)
    /\ Len(result.fills) = 2
    /\ result.fills[1].x[1] = -105
    /\ result.fills[2].x[Len(result.fills[2].x)] = -100

====
